---- MODULE Spec2Model ----
(***************************************************************************)
(* Accessibility analyser (dostepnosc-cyfrowa): the scan lifecycle of      *)
(* server/routes.ts and server/server.ts, the score calculation, the       *)
(* criterion mapper of the report generator and the manual audit overlay   *)
(* (audit sessions and their WCAG criterion evaluations).                  *)
(***************************************************************************)
EXTENDS Integers, Sequences, FiniteSets, TLC

VARIABLES
    scanResults,    \* storage: sequence of scan records, index = serial id
    task,           \* the background performAccessibilityScan of each scan
    auditSessions,  \* storage: sequence of audit session rows, index = serial id
    wcagCriteria,   \* storage: set of criterion evaluation rows
    req,            \* POST /api/audit/start requests: position and locals of each
    hist,           \* history of each request (what had returned when it arrived)
    criteriaScreenshots,  \* storage: set of screenshot rows
    resp,           \* the last response a handler sent, with its request
    calc            \* the last application of a pure function: input and result

vars == <<scanResults, task, auditSessions, wcagCriteria, req, hist,
          criteriaScreenshots, resp, calc>>

-----------------------------------------------------------------------------
(* Bounds of the model *)

MaxScans == 1          \* scans started in one run
MaxRequests == 2       \* POST /api/audit/start requests in one run
MaxPerLevel == 1       \* catalogue entries of each level kept in the checklist
MaxScreenshots == 1    \* screenshots uploaded in one run

LevelSet == {"A", "AA", "AAA"}

\* nothing sent yet, nothing computed yet
NoResp == [op |-> "none"]
NoCalc == [fn |-> "none"]

-----------------------------------------------------------------------------
(* Text: a string whose characters the code inspects is a sequence of      *)
(* one-character strings.                                                  *)

\* String.prototype.includes
Includes(s, t) ==
    \E i \in 0..(Len(s) - Len(t)) :
        \A j \in 1..Len(t) : s[i + j] = t[j]

\* criteriaId.replace(/\./g, '')
RemoveDots(s) == SelectSeq(s, LAMBDA ch : ch # ".")

Cid(a, b, c) == <<a, ".", b, ".">> \o c

W == <<"w", "c", "a", "g">>
Tag2a == W \o <<"2", "a">>
Tag2aa == W \o <<"2", "a", "a">>
Tag2aaa == W \o <<"2", "a", "a", "a">>
TagOf(digits) == W \o digits

-----------------------------------------------------------------------------
(* The WCAG catalogue of getWcagCriteriaDefinitions *)

Crit(a, b, c, lvl) == [id |-> Cid(a, b, c), level |-> lvl]

allCriteriaA ==
    << Crit("1","1",<<"1">>,"A"), Crit("1","2",<<"1">>,"A"), Crit("1","2",<<"2">>,"A"),
       Crit("1","2",<<"3">>,"A"), Crit("1","3",<<"1">>,"A"), Crit("1","3",<<"2">>,"A"),
       Crit("1","3",<<"3">>,"A"), Crit("1","4",<<"1">>,"A"), Crit("1","4",<<"2">>,"A"),
       Crit("2","1",<<"1">>,"A"), Crit("2","1",<<"2">>,"A"), Crit("2","2",<<"1">>,"A"),
       Crit("2","2",<<"2">>,"A"), Crit("2","3",<<"1">>,"A"), Crit("2","4",<<"1">>,"A"),
       Crit("2","4",<<"2">>,"A"), Crit("2","4",<<"3">>,"A"), Crit("2","4",<<"4">>,"A"),
       Crit("3","1",<<"1">>,"A"), Crit("3","2",<<"1">>,"A"), Crit("3","2",<<"2">>,"A"),
       Crit("3","3",<<"1">>,"A"), Crit("3","3",<<"2">>,"A"), Crit("4","1",<<"1">>,"A"),
       Crit("4","1",<<"2">>,"A") >>

allCriteriaAA ==
    << Crit("1","2",<<"4">>,"AA"), Crit("1","2",<<"5">>,"AA"), Crit("1","3",<<"4">>,"AA"),
       Crit("1","3",<<"5">>,"AA"), Crit("1","4",<<"3">>,"AA"), Crit("1","4",<<"4">>,"AA"),
       Crit("1","4",<<"5">>,"AA"), Crit("1","4",<<"1","0">>,"AA"),
       Crit("1","4",<<"1","1">>,"AA"), Crit("1","4",<<"1","2">>,"AA"),
       Crit("1","4",<<"1","3">>,"AA"), Crit("2","1",<<"4">>,"AA"), Crit("2","4",<<"5">>,"AA"),
       Crit("2","4",<<"6">>,"AA"), Crit("2","4",<<"7">>,"AA"), Crit("3","1",<<"2">>,"AA"),
       Crit("3","2",<<"3">>,"AA"), Crit("3","2",<<"4">>,"AA"), Crit("3","3",<<"3">>,"AA"),
       Crit("3","3",<<"4">>,"AA"), Crit("4","1",<<"3">>,"AA") >>

allCriteriaAAA ==
    << Crit("1","2",<<"6">>,"AAA"), Crit("1","2",<<"7">>,"AAA"), Crit("1","2",<<"8">>,"AAA"),
       Crit("1","2",<<"9">>,"AAA"), Crit("1","4",<<"6">>,"AAA"), Crit("1","4",<<"7">>,"AAA"),
       Crit("1","4",<<"8">>,"AAA"), Crit("1","4",<<"9">>,"AAA") >>

\* the allCriteria array, in source order
allCriteria == allCriteriaA \o allCriteriaAA \o allCriteriaAAA

\* a filter that keeps only the criteria of the selected level itself
LevelFilter_OwnLevelOnly(cat, wcagLevel) ==
    SelectSeq(cat, LAMBDA c : c.level = wcagLevel)

\* Array.prototype.filter with the level test of each branch
LevelFilter(cat, wcagLevel) ==
    IF wcagLevel = "A" THEN SelectSeq(cat, LAMBDA c : c.level = "A")
    ELSE IF wcagLevel = "AA" THEN SelectSeq(cat, LAMBDA c : c.level = "A" \/ c.level = "AA")
    ELSE cat

\* the catalogue the checklist is built from: the first MaxPerLevel entries
\* of each level, in source order
Prefix(s, n) == SubSeq(s, 1, IF n < Len(s) THEN n ELSE Len(s))
Catalogue ==
    Prefix(allCriteriaA, MaxPerLevel) \o Prefix(allCriteriaAA, MaxPerLevel)
        \o Prefix(allCriteriaAAA, MaxPerLevel)

getWcagCriteriaDefinitions(wcagLevel) == LevelFilter(Catalogue, wcagLevel)

-----------------------------------------------------------------------------
(* Findings.  A finding (violation) carries its rule id and its tags; the  *)
(* texts fixed per rule id play no part in any decision.                   *)

\* the node of a finding: the element it is anchored at (nodes[0].html) and its
\* target, the element's name with its ordinal (`name:nth-of-type(n)`)
NoNode == [html |-> [kind |-> "none", name |-> "", attrs |-> <<>>], target |-> <<>>]
FindingAt(ruleId, tagSeq, element, ordinal) ==
    [id |-> ruleId, tags |-> tagSeq, node |-> [html |-> element, target |-> <<element.name, ordinal>>]]
Finding(ruleId, tagSeq) == [id |-> ruleId, tags |-> tagSeq, node |-> NoNode]

D3(a, b, c) == <<a, b, c>>

-----------------------------------------------------------------------------
(* Criterion mapper: getStatusForCriteria of generateWordReport *)

criteriaMap(criteriaId) ==
    CASE criteriaId = Cid("1","1",<<"1">>) -> {"image-alt", "input-image-alt", "area-alt", "object-alt"}
      [] criteriaId = Cid("1","3",<<"1">>) -> {"label", "form-field-multiple-labels", "heading-order",
                                              "landmark-one-main", "page-has-heading-one"}
      [] criteriaId = Cid("1","4",<<"3">>) -> {"color-contrast"}
      [] criteriaId = Cid("1","4",<<"4">>) -> {"meta-viewport"}
      [] criteriaId = Cid("2","1",<<"1">>) -> {"keyboard", "focusable-element"}
      [] criteriaId = Cid("2","1",<<"2">>) -> {"focus-order-semantics", "focus-visible"}
      [] criteriaId = Cid("2","4",<<"1">>) -> {"bypass", "skip-link"}
      [] criteriaId = Cid("2","4",<<"2">>) -> {"document-title"}
      [] criteriaId = Cid("2","4",<<"3">>) -> {"tabindex"}
      [] criteriaId = Cid("2","4",<<"4">>) -> {"link-name"}
      [] criteriaId = Cid("2","4",<<"6">>) -> {"empty-heading"}
      [] criteriaId = Cid("2","4",<<"7">>) -> {"focus-order-semantics"}
      [] criteriaId = Cid("3","1",<<"1">>) -> {"html-has-lang"}
      [] criteriaId = Cid("3","2",<<"2">>) -> {"select-name"}
      [] criteriaId = Cid("4","1",<<"1">>) -> {"duplicate-id", "html-has-doctype"}
      [] criteriaId = Cid("4","1",<<"2">>) -> {"button-name", "input-button-name", "aria-valid-attr"}
      [] OTHER -> {}

\* the explicit "tag.includes(`wcagNNN`) && criteriaId === 'N.N.N'" disjuncts
explicitTagPairs ==
    { D3("1","1","1"), D3("1","3","1"), D3("1","4","3"), D3("2","1","1"), D3("2","4","1"),
      D3("2","4","2"), D3("2","4","4"), D3("3","1","1"), D3("3","3","2"), D3("4","1","2") }

hasDirectViolation(violations, criteriaId) ==
    \E i \in 1..Len(violations) : violations[i].id \in criteriaMap(criteriaId)

tagMatches(tag, criteriaId) ==
    LET wcagPattern == RemoveDots(criteriaId)
    IN  \/ Includes(tag, W \o wcagPattern)
        \/ Includes(tag, Tag2a \o wcagPattern)
        \/ Includes(tag, Tag2aa \o wcagPattern)
        \/ \E d \in explicitTagPairs :
              Includes(tag, TagOf(d)) /\ criteriaId = Cid(d[1], d[2], <<d[3]>>)

hasTagViolation(violations, criteriaId) ==
    \E i \in 1..Len(violations) :
        \E k \in 1..Len(violations[i].tags) : tagMatches(violations[i].tags[k], criteriaId)

\* a mapper that wants both paths to match
getStatusForCriteria_BothPaths(violations, criteriaId) ==
    IF Len(violations) = 0 THEN "Spelnione"
    ELSE IF hasDirectViolation(violations, criteriaId) /\ hasTagViolation(violations, criteriaId)
         THEN "Niespelnione"
         ELSE "Spelnione"

\* "Niespelnione" (not met) or "Spelnione" (met)
getStatusForCriteria(violations, criteriaId) ==
    IF Len(violations) = 0 THEN "Spelnione"
    ELSE IF hasDirectViolation(violations, criteriaId) \/ hasTagViolation(violations, criteriaId)
         THEN "Niespelnione"
         ELSE "Spelnione"

-----------------------------------------------------------------------------
(* Markup.  The fallback analysis reads the fetched text with regular      *)
(* expressions over tags and attributes; a markup is modelled as the       *)
(* sequence of its tags, each with its name and its attributes in order.   *)

Open(name, attrs) == [kind |-> "open", name |-> name, attrs |-> attrs]
Close(name) == [kind |-> "close", name |-> name, attrs |-> <<>>]
Doctype(word) == [kind |-> "doctype", name |-> word, attrs |-> <<>>]
Text(word) == [kind |-> "text", name |-> word, attrs |-> <<>>]

Range(s) == {s[i] : i \in 1..Len(s)}
HasAttr(tok, a) == a \in Range(tok.attrs)
Opens(html) == SelectSeq(html, LAMBDA t : t.kind = "open")
AnyTok(html, P(_)) == \E i \in 1..Len(html) : P(html[i])

\* attributes whose text contains "alt=", and those that are alt="" or alt=''
AltAttrs == {"alt", "alt_empty_dq", "alt_empty_sq"}
EmptyAltAttrs == {"alt_empty_dq", "alt_empty_sq"}
IdAttrs == {"id", "id_main"}
LabelledTypes == {"type_text", "type_email", "type_password"}

\* html.includes(...) tests used by the rules and by the passed-tests table
IncludesTitleTag(html) == AnyTok(html, LAMBDA t : t.kind = "open" /\ t.name = "title" /\ t.attrs = <<>>)
IncludesEmptyTitle(html) ==
    \E i \in 1..(Len(html) - 1) :
        /\ html[i].kind = "open" /\ html[i].name = "title" /\ html[i].attrs = <<>>
        /\ html[i + 1].kind = "close" /\ html[i + 1].name = "title"
IncludesLang(html) == AnyTok(html, LAMBDA t : HasAttr(t, "lang"))
IncludesCharset(html) == AnyTok(html, LAMBDA t : HasAttr(t, "charset"))
IncludesH1(html) == AnyTok(html, LAMBDA t : t.kind = "open" /\ t.name = "h1")
IncludesDoctypeUpper(html) == AnyTok(html, LAMBDA t : t.kind = "doctype" /\ t.name = "DOCTYPE")
IncludesDoctypeLower(html) == AnyTok(html, LAMBDA t : t.kind = "doctype" /\ t.name = "doctype")
IncludesNavTag(html) == AnyTok(html, LAMBDA t : t.kind = "open" /\ t.name = "nav" /\ t.attrs = <<>>)
IncludesNavigationWord(html) ==
    AnyTok(html, LAMBDA t : (t.kind = "text" /\ t.name = "navigation") \/ HasAttr(t, "role_navigation"))
IncludesMainTag(html) == AnyTok(html, LAMBDA t : t.kind = "open" /\ t.name = "main" /\ t.attrs = <<>>)
IncludesIdMain(html) == AnyTok(html, LAMBDA t : HasAttr(t, "id_main"))
IncludesMainOpen(html) == AnyTok(html, LAMBDA t : t.kind = "open" /\ t.name = "main")
IncludesRoleMain(html) == AnyTok(html, LAMBDA t : HasAttr(t, "role_main"))

-----------------------------------------------------------------------------
(* Fallback analysis of routes.ts: analyzeHTMLBasic and the validators *)

\* arr.map/filter chains: the findings a rule emits over a sequence of tags
RECURSIVE FlatMap(_, _)
FlatMap(F(_), s) == IF s = <<>> THEN <<>> ELSE F(Head(s)) \o FlatMap(F, Tail(s))

T111 == TagOf(<<"1","1","1">>)
T332 == TagOf(<<"3","3","2">>)
T311 == TagOf(<<"3","1","1">>)
T242 == TagOf(<<"2","4","2">>)
T131 == TagOf(<<"1","3","1">>)
T412 == TagOf(<<"4","1","2">>)
T143 == TagOf(<<"1","4","3">>)
T244 == TagOf(<<"2","4","4">>)
T211 == TagOf(<<"2","1","1">>)

\* 1. images: no "alt=", or alt="" or alt=''
imageRule(tok) ==
    IF tok.name = "img"
       /\ (Range(tok.attrs) \cap AltAttrs = {} \/ Range(tok.attrs) \cap EmptyAltAttrs # {})
    THEN <<Finding("image-alt", <<Tag2a, T111>>)>>
    ELSE <<>>

\* 2. text, email and password inputs with neither aria-label= nor id=
inputRule(tok) ==
    IF tok.name = "input" /\ Range(tok.attrs) \cap LabelledTypes # {}
       /\ ~HasAttr(tok, "aria-label") /\ Range(tok.attrs) \cap IdAttrs = {}
    THEN <<Finding("label", <<Tag2a, T332>>)>>
    ELSE <<>>

validateHTMLStructure(html) ==
    (IF ~IncludesDoctypeUpper(html) /\ ~IncludesDoctypeLower(html)
        THEN <<Finding("html-has-doctype", <<Tag2a>>)>> ELSE <<>>)
    \o (IF ~IncludesLang(html)
        THEN <<Finding("html-has-lang", <<Tag2a, T311>>)>> ELSE <<>>)
    \o (IF ~IncludesTitleTag(html) \/ IncludesEmptyTitle(html)
        THEN <<Finding("document-title", <<Tag2a, T242>>)>> ELSE <<>>)

HeadingNames == <<"h1", "h2", "h3", "h4", "h5", "h6">>
IsHeading(tok) == tok.kind = "open" /\ tok.name \in Range(HeadingNames)
\* parseInt of the digit of the heading's tag
HeadingLevel(tok) == CHOOSE l \in 1..6 : HeadingNames[l] = tok.name
headingMatches(html) == SelectSeq(html, IsHeading)

\* a heading rule that flags every heading deeper than the one before it
RECURSIVE headingOrderFrom_AnyIncrease(_, _, _)
headingOrderFrom_AnyIncrease(hs, previousLevel, index) ==
    IF hs = <<>> THEN <<>>
    ELSE LET level == HeadingLevel(Head(hs))
         IN  (IF previousLevel > 0 /\ level > previousLevel
                 THEN <<FindingAt("heading-order", <<Tag2a, T131>>, Head(hs), index + 1)>>
                 ELSE <<>>)
             \o headingOrderFrom_AnyIncrease(Tail(hs), level, index + 1)

\* the forEach over the headings, carrying previousLevel; index is the
\* callback's second argument
RECURSIVE headingOrderFrom(_, _, _)
headingOrderFrom(hs, previousLevel, index) ==
    IF hs = <<>> THEN <<>>
    ELSE LET level == HeadingLevel(Head(hs))
         IN  (IF previousLevel > 0 /\ level > previousLevel + 1
                 THEN <<FindingAt("heading-order", <<Tag2a, T131>>, Head(hs), index + 1)>>
                 ELSE <<>>)
             \o headingOrderFrom(Tail(hs), level, index + 1)

headingOrder_AnyIncrease(hs, previousLevel) == headingOrderFrom_AnyIncrease(hs, previousLevel, 0)
headingOrder(hs, previousLevel) == headingOrderFrom(hs, previousLevel, 0)

validateSemanticHTML(html) ==
    LET hs == headingMatches(html)
        hasH1 == \E i \in 1..Len(hs) : HeadingLevel(hs[i]) = 1
        hasMain == IncludesMainOpen(html) \/ IncludesRoleMain(html)
    IN  headingOrder(hs, 0)
        \o (IF ~hasH1 /\ Len(hs) > 0
            THEN <<Finding("page-has-heading-one", <<Tag2a>>)>> ELSE <<>>)
        \o (IF ~hasMain
            THEN <<Finding("landmark-one-main", <<Tag2a>>)>> ELSE <<>>)

\* attribute names the aria regex matches, and the allow-list
AriaAttrs == {"aria-label", "aria-hidden", "aria-foo"}
validAriaAttributes ==
    { "aria-label", "aria-labelledby", "aria-describedby", "aria-hidden",
      "aria-expanded", "aria-current", "aria-live", "aria-atomic",
      "aria-controls", "aria-owns", "aria-flowto", "aria-required",
      "aria-invalid", "aria-disabled", "aria-readonly", "aria-checked",
      "aria-selected", "aria-pressed", "aria-level", "aria-setsize",
      "aria-posinset", "aria-orientation", "aria-sort", "aria-multiline",
      "aria-multiselectable", "aria-autocomplete", "aria-haspopup" }

ariaAttrRule(a) ==
    IF a \in AriaAttrs /\ a \notin validAriaAttributes
    THEN <<Finding("aria-valid-attr", <<Tag2a, T412>>)>> ELSE <<>>
ariaTokRule(tok) == FlatMap(ariaAttrRule, tok.attrs)
validateARIAAttributes(html) == FlatMap(ariaTokRule, html)

\* style attributes in which the colour regex finds "color:" (also inside
\* "background-color:"); one match per style attribute
ColorStyles == {"style_color", "style_bgcolor", "style_color_bg"}
colorAttrRule(a) ==
    IF a \in ColorStyles
    THEN <<Finding("color-contrast", <<Tag2aa, T143>>)>> ELSE <<>>
colorTokRule(tok) == FlatMap(colorAttrRule, tok.attrs)
analyzeColorContrast(html) == FlatMap(colorTokRule, html)

\* tag names the regex <(a|button|input|select|textarea|area)[^>]*> matches:
\* every opening tag whose name starts with one of the alternatives
InteractivePrefixed ==
    {"a", "button", "input", "select", "textarea", "area", "article", "aside", "abbr", "audio"}
NativelyFocusable == {"button", "input", "select", "textarea", "a"}

keyboardRule(tok) ==
    IF tok.kind = "open" /\ tok.name \in InteractivePrefixed
    THEN (IF tok.name = "a" /\ ~HasAttr(tok, "href")
             THEN <<Finding("link-name", <<Tag2a, T244>>)>> ELSE <<>>)
         \o (IF HasAttr(tok, "onclick") /\ ~HasAttr(tok, "tabindex")
                /\ tok.name \notin NativelyFocusable
             THEN <<Finding("focusable-element", <<Tag2a, T211>>)>> ELSE <<>>)
    ELSE <<>>
validateKeyboardAccessibility(html) == FlatMap(keyboardRule, html)

\* an analysis that runs the contrast rule at AA only
analyzeHTMLBasic_ContrastAtAAOnly(html, wcagLevel) ==
    FlatMap(imageRule, Opens(html))
    \o FlatMap(inputRule, Opens(html))
    \o validateHTMLStructure(html)
    \o validateSemanticHTML(html)
    \o validateARIAAttributes(html)
    \o (IF wcagLevel = "AA" THEN analyzeColorContrast(html) ELSE <<>>)
    \o validateKeyboardAccessibility(html)

analyzeHTMLBasic(html, wcagLevel) ==
    FlatMap(imageRule, Opens(html))
    \o FlatMap(inputRule, Opens(html))
    \o validateHTMLStructure(html)
    \o validateSemanticHTML(html)
    \o validateARIAAttributes(html)
    \o (IF wcagLevel = "AA" \/ wcagLevel = "AAA" THEN analyzeColorContrast(html) ELSE <<>>)
    \o validateKeyboardAccessibility(html)

calculateBasicPassedTests(html, wcagLevel) ==
    (IF IncludesTitleTag(html) THEN 5 ELSE 0)
    + (IF IncludesLang(html) THEN 5 ELSE 0)
    + (IF IncludesCharset(html) THEN 3 ELSE 0)
    + (IF IncludesH1(html) THEN 3 ELSE 0)
    + (IF IncludesDoctypeUpper(html) THEN 2 ELSE 0)
    + (IF IncludesNavTag(html) \/ IncludesNavigationWord(html) THEN 5 ELSE 0)
    + (IF IncludesMainTag(html) \/ IncludesIdMain(html) THEN 5 ELSE 0)
    + 15

\* matches of /<[^\/][^>]*>/g: every tag that is not a closing tag
\* a count that takes closing tags for elements too
countHTMLElements_ClosingTagsToo(html) == Len(SelectSeq(html, LAMBDA t : t.kind # "text"))
countHTMLElements(html) ==
    Len(SelectSeq(html, LAMBDA t : t.kind = "open" \/ t.kind = "doctype"))

-----------------------------------------------------------------------------
(* Analysis of server.ts (the curl-only scan): analyzeHTMLContent *)

IncludesColorColon(html) == AnyTok(html, LAMBDA t : Range(t.attrs) \cap ColorStyles # {})
IncludesBackground(html) ==
    AnyTok(html, LAMBDA t : Range(t.attrs) \cap {"style_bgcolor", "style_color_bg"} # {})
IncludesFocusPseudo(html) == AnyTok(html, LAMBDA t : t.kind = "text" /\ t.name = ":focus")
IncludesOutline(html) ==
    AnyTok(html, LAMBDA t : (t.kind = "text" /\ t.name = "outline") \/ HasAttr(t, "style_outline"))
IncludesHeaderTag(html) == AnyTok(html, LAMBDA t : t.kind = "open" /\ t.name = "header" /\ t.attrs = <<>>)
IncludesFooterTag(html) == AnyTok(html, LAMBDA t : t.kind = "open" /\ t.name = "footer" /\ t.attrs = <<>>)

T241 == TagOf(<<"2","4","1">>)

analyzeHTMLContent(html, wcagLevel) ==
    FlatMap(imageRule, Opens(html))
    \o headingOrder(headingMatches(html), 0)
    \o FlatMap(inputRule, Opens(html))
    \o (IF (wcagLevel = "AA" \/ wcagLevel = "AAA")
           /\ IncludesColorColon(html) /\ IncludesBackground(html)
        THEN <<Finding("color-contrast", <<Tag2aa, T143>>)>> ELSE <<>>)
    \o (IF wcagLevel = "AAA" /\ ~IncludesFocusPseudo(html) /\ ~IncludesOutline(html)
        THEN <<Finding("focus-visible", <<Tag2aaa, T241>>)>> ELSE <<>>)

calculatePassedTests(html, wcagLevel) ==
    (IF IncludesTitleTag(html) THEN 1 ELSE 0)
    + (IF IncludesLang(html) THEN 1 ELSE 0)
    + (IF IncludesCharset(html) THEN 1 ELSE 0)
    + (IF IncludesH1(html) THEN 1 ELSE 0)
    + (IF IncludesDoctypeUpper(html) THEN 1 ELSE 0)
    + (IF IncludesNavTag(html) \/ IncludesNavigationWord(html) THEN 5 ELSE 0)
    + (IF IncludesMainTag(html) \/ IncludesIdMain(html) THEN 3 ELSE 0)
    + (IF IncludesHeaderTag(html) /\ IncludesFooterTag(html) THEN 7 ELSE 0)
    + 25
    + (IF wcagLevel = "AA" THEN 10 ELSE 0)
    + (IF wcagLevel = "AAA" THEN 5 ELSE 0)

-----------------------------------------------------------------------------
(* Score.  A JavaScript number is [kind |-> "int", val |-> n]; NaN and     *)
(* null are values of their own.                                           *)

Num(n) == [kind |-> "int", val |-> n]
NaN == [kind |-> "NaN", val |-> 0]
Null == [kind |-> "null", val |-> 0]

\* Math.round((p / (p + f)) * 100), rounding halves up; 0/0 is NaN
RoundedPercent(p, f) ==
    IF p + f = 0 THEN NaN
    ELSE Num((200 * p + (p + f)) \div (2 * (p + f)))

\* routes.ts, browser path: guarded by passedTests > 0
scoreGuarded(p, f) == IF p > 0 THEN RoundedPercent(p, f) ELSE Num(0)
\* routes.ts fallback path, server.ts: unguarded
scoreUnguarded(p, f) == RoundedPercent(p, f)

\* JSON.stringify followed by JSON.parse of a number field (file storage)
JsonNumber(x) == IF x.kind = "NaN" THEN Null ELSE x

-----------------------------------------------------------------------------
(* Inputs from the environment *)

\* what curl returns for the scanned address
PageImg ==
    << Open("html", <<>>), Open("body", <<>>), Open("img", <<"src">>),
       Close("body"), Close("html") >>
PageGood ==
    << Doctype("DOCTYPE"), Open("html", <<"lang">>), Open("head", <<>>),
       Open("meta", <<"charset">>), Open("title", <<>>), Text("page"), Close("title"),
       Close("head"), Open("body", <<>>), Open("main", <<>>), Open("h1", <<>>),
       Text("welcome"), Close("h1"), Close("main"), Close("body"), Close("html") >>
Pages == {PageImg, PageGood}

\* the tags axe is configured with for a level
axeTags(wcagLevel) ==
    (IF wcagLevel \in {"A", "AA", "AAA"} THEN {Tag2a} ELSE {})
    \cup (IF wcagLevel \in {"AA", "AAA"} THEN {Tag2aa} ELSE {})
    \cup (IF wcagLevel = "AAA" THEN {Tag2aaa} ELSE {})

\* what axe-core reports: its violations (id and tags) and the number of passes
AxeImageAlt == Finding("image-alt", <<Tag2a, T111>>)
AxeViolationLists == {<<>>, <<AxeImageAlt>>}
AxePassCounts == {0, 2}
AxeResults == [violations : AxeViolationLists, passes : AxePassCounts]

\* what document.querySelectorAll('*').length evaluates to
ElementCounts == {4}

\* routes.ts (browser, then curl), server.ts with the browser and the file
\* storage, server.ts with curl only
Impls == {"routes", "serverAxe", "serverCurl"}

\* the request body of POST /api/scan: whether url is a URL, and wcagLevel
\* as sent ("B" is no level; "missing" is an absent field)
RequestedLevels == LevelSet \cup {"B", "missing"}

-----------------------------------------------------------------------------
(* Scan storage *)

FailedMessageRoutes == "Nie udalo sie przeskanowac strony internetowej"
FailedMessageServer == "Failed to complete accessibility scan"
FailedMessageCurl == "Unable to access the website"
NoMessage == "null"

\* MemStorage.createScanResult / storage.saveScanResult with the record of POST /api/scan
NewScan(wcagLevel) ==
    [ status |-> "pending", violations |-> <<>>, passedTests |-> 0,
      elementsScanned |-> 0, complianceScore |-> Num(0), wcagLevel |-> wcagLevel,
      errorMessage |-> NoMessage ]

\* { ...existingScan, ...updates }
Merge(existing, updates) ==
    [f \in DOMAIN existing |-> IF f \in DOMAIN updates THEN updates[f] ELSE existing[f]]

\* the record as the storage of the implementation keeps it: the file storage
\* writes JSON and reads it back
Stored(impl, rec) ==
    IF impl = "serverAxe"
    THEN [rec EXCEPT !.complianceScore = JsonNumber(rec.complianceScore)]
    ELSE rec

updateScanResult(impl, store, id, updates) ==
    IF id \in 1..Len(store)
    THEN [store EXCEPT ![id] = Stored(impl, Merge(store[id], updates))]
    ELSE store

NoOut == [violations |-> <<>>, passedTests |-> 0, elementsScanned |-> 0, complianceScore |-> Num(0)]
NoRes == [violations |-> <<>>, passes |-> 0]

\* writes, completed and failures record what the task has done: the number of
\* its writes, the 'completed' updates it wrote, the paths of it that threw
NewTask(impl, wcagLevel) ==
    [ impl |-> impl, pc |-> "launch", wcagLevel |-> wcagLevel, browser |-> "none",
      thrown |-> FALSE, res |-> NoRes, out |-> NoOut, writes |-> 0, completed |-> <<>>,
      failures |-> {} ]

ScanIds == 1..Len(scanResults)
Outcomes == {"ok", "throw"}

TaskStep(s, t) == task' = [task EXCEPT ![s] = t]

\* where a throw inside the browser path goes: routes.ts runs its finally
\* (browser.close) and then the outer catch; server.ts goes to its catch
ThrowInBrowserPath(t) ==
    IF t.impl = "routes"
    THEN [t EXCEPT !.pc = "close", !.thrown = TRUE, !.failures = @ \cup {"browser"}]
    ELSE [t EXCEPT !.pc = "writeFailed", !.failures = @ \cup {"browser"}]

-----------------------------------------------------------------------------
(* POST /api/scan and the background task performAccessibilityScan *)

\* scanRequestSchema.parse of routes.ts; server.ts (20-47) only casts the body
ValidScanRequest(urlValid, level) == urlValid /\ level \in LevelSet \cup {"missing"}
Validates(impl) == impl # "serverAxe"
\* .default('AA') / the destructuring default
LevelOrDefault(level) == IF level = "missing" THEN "AA" ELSE level

\* the curl-only performAccessibilityScan up to its first await: execSync and
\* the analysis run before the function returns its promise to the handler
CurlMetrics(html, wcagLevel) ==
    LET violations == analyzeHTMLContent(html, wcagLevel)
        p == calculatePassedTests(html, wcagLevel)
    IN  [ violations |-> violations, passedTests |-> p,
          elementsScanned |-> countHTMLElements(html),
          complianceScore |-> scoreUnguarded(p, Len(violations)) ]

\* the task when performAccessibilityScan(...) has returned to the handler
StartedTask(impl, wcagLevel, fetched, html) ==
    IF impl # "serverCurl" THEN NewTask(impl, wcagLevel)
    ELSE IF fetched = "ok"
         THEN [NewTask(impl, wcagLevel) EXCEPT
                  !.pc = "writeFallback", !.out = CurlMetrics(html, wcagLevel)]
         ELSE [NewTask(impl, wcagLevel) EXCEPT !.pc = "writeFailed", !.failures = {"fallback"}]

ScanResponse(impl, urlValid, level, code, scanId, status) ==
    [ op |-> "startScan", impl |-> impl, urlValid |-> urlValid, wcagLevel |-> level,
      code |-> code, scanId |-> scanId, status |-> status ]

\* POST /api/scan, the whole handler: parse, create the record, call
\* performAccessibilityScan without awaiting it, answer
StartScan(impl, urlValid, level, outcome, fetched, html) ==
    /\ Len(scanResults) < MaxScans
    /\ IF Validates(impl) /\ ~ValidScanRequest(urlValid, level)
       THEN /\ resp' = ScanResponse(impl, urlValid, level, 400, 0, "none")
            /\ UNCHANGED <<scanResults, task>>
       ELSE IF outcome = "throw"
       THEN /\ resp' = ScanResponse(impl, urlValid, level, 500, 0, "none")
            /\ UNCHANGED <<scanResults, task>>
       ELSE /\ scanResults' = Append(scanResults, NewScan(LevelOrDefault(level)))
            /\ task' = Append(task, StartedTask(impl, LevelOrDefault(level), fetched, html))
            /\ resp' = ScanResponse(impl, urlValid, level, 200, Len(scanResults) + 1, "pending")
    /\ UNCHANGED <<auditSessions, wcagCriteria, req, hist, criteriaScreenshots, calc>>

\* puppeteer.launch (and the dynamic import before it)
Launch(s, outcome) ==
    /\ task[s].pc = "launch"
    /\ IF outcome = "ok"
       THEN TaskStep(s, [task[s] EXCEPT !.pc = "navigate", !.browser = "open"])
       ELSE TaskStep(s, [task[s] EXCEPT
                !.pc = IF task[s].impl = "routes" THEN "fetch" ELSE "writeFailed",
                !.failures = @ \cup {"browser"}])
    /\ UNCHANGED <<scanResults, auditSessions, wcagCriteria, req, hist, criteriaScreenshots, resp, calc>>

\* browser.newPage, setUserAgent, setViewport, page.goto
Navigate(s, outcome) ==
    /\ task[s].pc = "navigate"
    /\ IF outcome = "ok"
       THEN TaskStep(s, [task[s] EXCEPT !.pc = "analyze"])
       ELSE TaskStep(s, ThrowInBrowserPath(task[s]))
    /\ UNCHANGED <<scanResults, auditSessions, wcagCriteria, req, hist, criteriaScreenshots, resp, calc>>

\* new AxePuppeteer(page).analyze()
Analyze(s, outcome, r) ==
    /\ task[s].pc = "analyze"
    /\ IF outcome = "ok"
       THEN TaskStep(s, [task[s] EXCEPT !.pc = "evaluate", !.res = r])
       ELSE TaskStep(s, ThrowInBrowserPath(task[s]))
    /\ UNCHANGED <<scanResults, auditSessions, wcagCriteria, req, hist, criteriaScreenshots, resp, calc>>

\* the metrics: passes, page.evaluate(...) for the element count, the score
Metrics(t, n) ==
    LET p == t.res.passes
        f == Len(t.res.violations)
    IN  [ violations |-> t.res.violations, passedTests |-> p, elementsScanned |-> n,
          complianceScore |-> IF t.impl = "routes" THEN scoreGuarded(p, f)
                              ELSE scoreUnguarded(p, f) ]

Evaluate(s, outcome, n) ==
    /\ task[s].pc = "evaluate"
    /\ IF outcome = "ok"
       THEN TaskStep(s, [task[s] EXCEPT
                !.pc = IF task[s].impl = "routes" THEN "write" ELSE "close",
                !.out = Metrics(task[s], n)])
       ELSE TaskStep(s, ThrowInBrowserPath(task[s]))
    /\ UNCHANGED <<scanResults, auditSessions, wcagCriteria, req, hist, criteriaScreenshots, resp, calc>>

\* the update record of a completed scan; routes.ts also rewrites wcagLevel
CompletedUpdate(t) ==
    IF t.impl # "serverAxe"
    THEN [ status |-> "completed", violations |-> t.out.violations,
           passedTests |-> t.out.passedTests, elementsScanned |-> t.out.elementsScanned,
           complianceScore |-> t.out.complianceScore, wcagLevel |-> t.wcagLevel ]
    ELSE [ status |-> "completed", violations |-> t.out.violations,
           passedTests |-> t.out.passedTests, elementsScanned |-> t.out.elementsScanned,
           complianceScore |-> t.out.complianceScore ]

FailedUpdate(t) ==
    [ status |-> "failed",
      errorMessage |-> IF t.impl = "routes" THEN FailedMessageRoutes
                       ELSE IF t.impl = "serverAxe" THEN FailedMessageServer
                       ELSE FailedMessageCurl ]

\* await storage.updateScanResult(scanId, { status: 'completed', ... }) of the browser path
WriteCompleted(s, outcome) ==
    /\ task[s].pc = "write"
    /\ IF outcome = "ok"
       THEN /\ scanResults' = updateScanResult(task[s].impl, scanResults, s, CompletedUpdate(task[s]))
            /\ TaskStep(s, [task[s] EXCEPT
                   !.pc = IF task[s].impl = "routes" THEN "close" ELSE "done",
                   !.writes = task[s].writes + 1,
                   !.completed = Append(task[s].completed, CompletedUpdate(task[s]))])
       ELSE /\ scanResults' = scanResults
            /\ TaskStep(s, ThrowInBrowserPath(task[s]))
    /\ UNCHANGED <<auditSessions, wcagCriteria, req, hist, criteriaScreenshots, resp, calc>>

\* a finally block after which the fallback runs whether or not anything threw
CloseBrowser_ThenFallback(s, outcome) ==
    /\ task[s].pc = "close"
    /\ IF task[s].impl = "routes"
       THEN IF outcome = "ok"
            THEN TaskStep(s, [task[s] EXCEPT
                     !.browser = "closed", !.thrown = FALSE,
                     !.pc = "fetch"])
            ELSE TaskStep(s, [task[s] EXCEPT !.thrown = FALSE, !.pc = "fetch",
                                             !.failures = @ \cup {"browser"}])
       ELSE IF outcome = "ok"
            THEN TaskStep(s, [task[s] EXCEPT !.browser = "closed", !.pc = "write"])
            ELSE TaskStep(s, [task[s] EXCEPT !.pc = "writeFailed",
                                             !.failures = @ \cup {"browser"}])
    /\ UNCHANGED <<scanResults, auditSessions, wcagCriteria, req, hist, criteriaScreenshots, resp, calc>>

\* browser.close(): in the finally block of routes.ts, before the write in server.ts
CloseBrowser(s, outcome) ==
    /\ task[s].pc = "close"
    /\ IF task[s].impl = "routes"
       THEN IF outcome = "ok"
            THEN TaskStep(s, [task[s] EXCEPT
                     !.browser = "closed", !.thrown = FALSE,
                     !.pc = IF task[s].thrown THEN "fetch" ELSE "done"])
            ELSE TaskStep(s, [task[s] EXCEPT !.thrown = FALSE, !.pc = "fetch",
                                             !.failures = @ \cup {"browser"}])
       ELSE IF outcome = "ok"
            THEN TaskStep(s, [task[s] EXCEPT !.browser = "closed", !.pc = "write"])
            ELSE TaskStep(s, [task[s] EXCEPT !.pc = "writeFailed",
                                             !.failures = @ \cup {"browser"}])
    /\ UNCHANGED <<scanResults, auditSessions, wcagCriteria, req, hist, criteriaScreenshots, resp, calc>>

\* the outer catch of routes.ts: execSync(curl ...) and the basic analysis
FallbackMetrics(html, wcagLevel) ==
    LET violations == analyzeHTMLBasic(html, wcagLevel)
        p == calculateBasicPassedTests(html, wcagLevel)
    IN  [ violations |-> violations, passedTests |-> p,
          elementsScanned |-> countHTMLElements(html),
          complianceScore |-> scoreUnguarded(p, Len(violations)) ]

FallbackFetch(s, outcome, html) ==
    /\ task[s].pc = "fetch"
    /\ IF outcome = "ok"
       THEN TaskStep(s, [task[s] EXCEPT
                !.pc = "writeFallback", !.out = FallbackMetrics(html, task[s].wcagLevel)])
       ELSE TaskStep(s, [task[s] EXCEPT !.pc = "writeFailed", !.failures = @ \cup {"fallback"}])
    /\ UNCHANGED <<scanResults, auditSessions, wcagCriteria, req, hist, criteriaScreenshots, resp, calc>>

\* await storage.updateScanResult(scanId, { status: 'completed', ... }) of the fallback
WriteFallback(s, outcome) ==
    /\ task[s].pc = "writeFallback"
    /\ IF outcome = "ok"
       THEN /\ scanResults' = updateScanResult(task[s].impl, scanResults, s, CompletedUpdate(task[s]))
            /\ TaskStep(s, [task[s] EXCEPT
                   !.pc = "done", !.writes = task[s].writes + 1,
                   !.completed = Append(task[s].completed, CompletedUpdate(task[s]))])
       ELSE /\ scanResults' = scanResults
            /\ TaskStep(s, [task[s] EXCEPT !.pc = "writeFailed",
                                           !.failures = @ \cup {"fallback"}])
    /\ UNCHANGED <<auditSessions, wcagCriteria, req, hist, criteriaScreenshots, resp, calc>>

\* await storage.updateScanResult(scanId, { status: 'failed', errorMessage })
\* in the last catch; a throw here rejects the task's promise, which nobody awaits
WriteFailed(s, outcome) ==
    /\ task[s].pc = "writeFailed"
    /\ IF outcome = "ok"
       THEN /\ scanResults' = updateScanResult(task[s].impl, scanResults, s, FailedUpdate(task[s]))
            /\ TaskStep(s, [task[s] EXCEPT !.pc = "done", !.writes = task[s].writes + 1])
       ELSE /\ scanResults' = scanResults
            /\ TaskStep(s, [task[s] EXCEPT !.pc = "rejected"])
    /\ UNCHANGED <<auditSessions, wcagCriteria, req, hist, criteriaScreenshots, resp, calc>>

\* GET /api/scan/:id: one read of the store, answered with the record; the
\* response notes which completed updates had been written when it was read
GetScan(s, outcome) ==
    /\ resp' = IF outcome = "throw" THEN [op |-> "getScan", scanId |-> s, code |-> 500]
               ELSE IF s \notin ScanIds THEN [op |-> "getScan", scanId |-> s, code |-> 404]
               ELSE [ op |-> "getScan", scanId |-> s, code |-> 200, body |-> scanResults[s],
                      after |-> task[s].completed ]
    /\ UNCHANGED <<scanResults, task, auditSessions, wcagCriteria, req, hist,
                   criteriaScreenshots, calc>>

-----------------------------------------------------------------------------
(* Audit storage: the tables audit_sessions and wcag_criteria *)

AuditorNames == {"Anna"}
DefaultSessionStatus == "in_progress"
\* a column default of 'passed'
DefaultCriteriaStatus_Passed == "passed"
DefaultCriteriaStatus == "not_evaluated"

createAuditSession(store, scanId, auditorName) ==
    Append(store, [ id |-> Len(store) + 1, scanId |-> scanId, auditorName |-> auditorName,
                    status |-> DefaultSessionStatus ])

\* the session with the given id, if any
getAuditSession(store, id) == {store[i].id : i \in {j \in 1..Len(store) : store[j].id = id}}

\* the rows a lookup by scan id may return; with several rows for one scan
\* the query states no order, so any of them may come first
getAuditSessionByScanId(store, scanId) ==
    {store[i].id : i \in {j \in 1..Len(store) : store[j].scanId = scanId}}

\* an insert record that seeds the status as 'failed'
CriteriaInsert_SeedFailed(auditSessionId, criterion) ==
    [ auditSessionId |-> auditSessionId, criteriaId |-> criterion.id, level |-> criterion.level,
      status |-> "failed" ]

\* the insert record of initializeWcagCriteria: no status, no notes
CriteriaInsert(auditSessionId, criterion) ==
    [ auditSessionId |-> auditSessionId, criteriaId |-> criterion.id, level |-> criterion.level ]

\* a row's id is assigned by the table; only its uniqueness matters, so it is
\* modelled as the session together with the row's number within the session
createWcagCriteria(store, ins) ==
    LET n == Cardinality({row \in store : row.auditSessionId = ins.auditSessionId})
    IN  store \cup
          {[ id |-> <<ins.auditSessionId, n + 1>>, auditSessionId |-> ins.auditSessionId,
             criteriaId |-> ins.criteriaId, level |-> ins.level,
             status |-> IF "status" \in DOMAIN ins THEN ins.status
                        ELSE DefaultCriteriaStatus,
             notes |-> NoMessage, updatedAt |-> 0 ]}

getWcagCriteriaBySession(store, auditSessionId) ==
    {row \in store : row.auditSessionId = auditSessionId}

\* an absent field of a request body
Undefined == "undefined"

\* update of one row by id: the fields given are set, the others kept; an
\* absent id changes nothing
\* updatedAt is the row's logical time: 0 when the row is created, one more
\* after every update of the row
MaxUpdates == 2        \* updates of criterion evaluations in one run
RECURSIVE Updates(_)
Updates(store) ==
    IF store = {} THEN 0
    ELSE LET row == CHOOSE x \in store : TRUE
         IN  row.updatedAt + Updates(store \ {row})
updateWcagCriteria(store, id, updates) ==
    { IF row.id = id
      THEN [row EXCEPT
              !.status = IF updates.status = Undefined THEN row.status ELSE updates.status,
              !.notes = IF updates.notes = Undefined THEN row.notes ELSE updates.notes,
              !.updatedAt = row.updatedAt + 1]
      ELSE row : row \in store }

CriteriaIds(store) == {row.id : row \in store}

\* the table criteria_screenshots: its rows and its serial
NoScreenshots == [rows |-> {}, serial |-> 0]

createScreenshot(store, ins) ==
    [ rows |-> store.rows \cup {[ id |-> store.serial + 1, criteriaId |-> ins.criteriaId,
                                  filename |-> ins.filename ]},
      serial |-> store.serial + 1 ]

\* criteria_id references wcag_criteria.id
ForeignKeyHolds(criteria, ins) == ins.criteriaId \in CriteriaIds(criteria)

deleteScreenshot(store, id) == [store EXCEPT !.rows = {row \in store.rows : row.id # id}]

-----------------------------------------------------------------------------
(* POST /api/audit/start *)

Requests == 1..MaxRequests
NoResponse == [code |-> 0, session |-> 0]
IdleRequest ==
    [ pc |-> "idle", scanId |-> 0, auditorName |-> "", wcagLevel |-> "", sessionId |-> 0,
      idx |-> 0, response |-> NoResponse ]
NoHist == [returned |-> {}, overlapped |-> FALSE, sessions |-> 0, criteria |-> 0]

InFlight(r) == req[r].pc \notin {"idle", "done"}
Respond(r0, code, session) == [r0 EXCEPT !.pc = "done", !.response = [code |-> code, session |-> session]]

SessionsOf(store, scanId) == {i \in 1..Len(store) : store[i].scanId = scanId}
CriteriaOfScan(sessions, criteria, scanId) ==
    {row \in criteria : row.auditSessionId \in SessionsOf(sessions, scanId)}

\* the request arrives and the handler reads the scan: 404 when it is absent
AuditStart(r, scanId, auditorName, outcome) ==
    /\ req[r].pc = "idle"
    /\ \A q \in Requests : q < r => req[q].pc # "idle"
    /\ hist' = [h \in Requests |->
                 IF h = r
                 THEN [ returned |-> {q \in Requests : req[q].pc = "done" /\ req[q].scanId = scanId},
                        overlapped |-> \E q \in Requests : InFlight(q) /\ req[q].scanId = scanId,
                        sessions |-> Cardinality(SessionsOf(auditSessions, scanId)),
                        criteria |-> Cardinality(CriteriaOfScan(auditSessions, wcagCriteria, scanId)) ]
                 ELSE IF InFlight(h) /\ req[h].scanId = scanId
                      THEN [hist[h] EXCEPT !.overlapped = TRUE]
                      ELSE hist[h]]
    /\ LET r0 == [req[r] EXCEPT !.scanId = scanId, !.auditorName = auditorName]
       IN  IF outcome = "throw"
           THEN req' = [req EXCEPT ![r] = Respond(r0, 500, 0)]
           ELSE IF scanId \notin ScanIds
                THEN req' = [req EXCEPT ![r] = Respond(r0, 404, 0)]
                ELSE req' = [req EXCEPT ![r] =
                         [r0 EXCEPT !.pc = "lookup", !.wcagLevel = scanResults[scanId].wcagLevel]]
    /\ UNCHANGED <<scanResults, task, auditSessions, wcagCriteria, criteriaScreenshots, resp, calc>>

\* a handler that creates the session without looking at the lookup's result
LookupSession_IgnoreExisting(r, outcome) ==
    /\ req[r].pc = "lookup"
    /\ IF outcome = "throw"
       THEN req' = [req EXCEPT ![r] = Respond(req[r], 500, 0)]
       ELSE req' = [req EXCEPT ![r].pc = "create"]
    /\ UNCHANGED <<scanResults, task, auditSessions, wcagCriteria, hist, criteriaScreenshots, resp, calc>>

\* const existingSession = await storage.getAuditSessionByScanId(scanId)
LookupSession(r, outcome) ==
    /\ req[r].pc = "lookup"
    /\ IF outcome = "throw"
       THEN req' = [req EXCEPT ![r] = Respond(req[r], 500, 0)]
       ELSE LET found == getAuditSessionByScanId(auditSessions, req[r].scanId)
            IN  IF found # {}
                THEN \E existing \in found : req' = [req EXCEPT ![r] = Respond(req[r], 200, existing)]
                ELSE req' = [req EXCEPT ![r].pc = "create"]
    /\ UNCHANGED <<scanResults, task, auditSessions, wcagCriteria, hist, criteriaScreenshots, resp, calc>>

\* const auditSession = await storage.createAuditSession({ scanId, auditorName })
CreateSession(r, outcome) ==
    /\ req[r].pc = "create"
    /\ IF outcome = "throw"
       THEN /\ req' = [req EXCEPT ![r] = Respond(req[r], 500, 0)]
            /\ auditSessions' = auditSessions
       ELSE /\ auditSessions' = createAuditSession(auditSessions, req[r].scanId, req[r].auditorName)
            /\ req' = [req EXCEPT ![r].pc = "init", ![r].idx = 1,
                                  ![r].sessionId = Len(auditSessions) + 1]
    /\ UNCHANGED <<scanResults, task, wcagCriteria, hist, criteriaScreenshots, resp, calc>>

\* one iteration of the loop of initializeWcagCriteria; after the last one the
\* handler answers with the session
InitCriterion(r, outcome) ==
    /\ req[r].pc = "init"
    /\ LET criteria == getWcagCriteriaDefinitions(req[r].wcagLevel)
       IN  IF outcome = "throw"
           THEN /\ req' = [req EXCEPT ![r] = Respond(req[r], 500, 0)]
                /\ wcagCriteria' = wcagCriteria
           ELSE /\ wcagCriteria' = createWcagCriteria(wcagCriteria,
                                       CriteriaInsert(req[r].sessionId, criteria[req[r].idx]))
                /\ IF req[r].idx < Len(criteria)
                   THEN req' = [req EXCEPT ![r].idx = req[r].idx + 1]
                   ELSE req' = [req EXCEPT ![r] = Respond(req[r], 200, req[r].sessionId)]
    /\ UNCHANGED <<scanResults, task, auditSessions, hist, criteriaScreenshots, resp, calc>>

\* GET /api/audit/:sessionId: the session together with its checklist
GetSession(sessionId, outcome) ==
    /\ IF outcome = "throw"
       THEN resp' = [op |-> "getSession", sessionId |-> sessionId, code |-> 500, criteria |-> {}]
       ELSE IF getAuditSession(auditSessions, sessionId) = {}
            THEN resp' = [op |-> "getSession", sessionId |-> sessionId, code |-> 404, criteria |-> {}]
            ELSE resp' = [ op |-> "getSession", sessionId |-> sessionId, code |-> 200,
                           criteria |-> getWcagCriteriaBySession(wcagCriteria, sessionId) ]
    /\ UNCHANGED <<scanResults, task, auditSessions, wcagCriteria, req, hist,
                   criteriaScreenshots, calc>>

-----------------------------------------------------------------------------
(* PUT /api/audit/criteria/:criteriaId and the screenshot routes *)

\* what a request may carry: a status (valid, or not one of the four, or
\* absent), notes (or absent), the id of a row or of none
StatusInputs == {"passed", "not_applicable", "bogus", Undefined}
NotesInputs == {"note", Undefined}
NoSuchId == <<0, 0>>
Filenames == {"shot.png"}

\* a handler that answers with whatever the update returned, found or not
UpdateCriteria_NoNotFound(id, status, notes, outcome) ==
    /\ id \in CriteriaIds(wcagCriteria) => Updates(wcagCriteria) < MaxUpdates
    /\ IF outcome = "throw"
       THEN /\ resp' = [op |-> "updateCriteria", id |-> id, status |-> status, notes |-> notes,
                        fault |-> TRUE, code |-> 500]
            /\ wcagCriteria' = wcagCriteria
       ELSE /\ wcagCriteria' = updateWcagCriteria(wcagCriteria, id, [status |-> status, notes |-> notes])
            /\ resp' = [op |-> "updateCriteria", id |-> id, status |-> status, notes |-> notes,
                        fault |-> FALSE, code |-> 200]
    /\ UNCHANGED <<scanResults, task, auditSessions, req, hist, criteriaScreenshots, calc>>

\* a handler that sends absent notes to the storage as an empty value
UpdateCriteria_BlankNotes(id, status, notes, outcome) ==
    /\ id \in CriteriaIds(wcagCriteria) => Updates(wcagCriteria) < MaxUpdates
    /\ IF outcome = "throw"
       THEN /\ resp' = [op |-> "updateCriteria", id |-> id, status |-> status, notes |-> notes,
                        fault |-> TRUE, code |-> 500]
            /\ wcagCriteria' = wcagCriteria
       ELSE /\ wcagCriteria' = updateWcagCriteria(wcagCriteria, id, [status |-> status,
                              notes |-> IF notes = Undefined THEN NoMessage ELSE notes])
            /\ resp' = [op |-> "updateCriteria", id |-> id, status |-> status, notes |-> notes,
                        fault |-> FALSE, code |-> IF id \in CriteriaIds(wcagCriteria) THEN 200 ELSE 404]
    /\ UNCHANGED <<scanResults, task, auditSessions, req, hist, criteriaScreenshots, calc>>

\* a handler that writes the fields of the row itself, past the storage
UpdateCriteria_WritesRowItself(id, status, notes, outcome) ==
    /\ id \in CriteriaIds(wcagCriteria) => Updates(wcagCriteria) < MaxUpdates
    /\ IF outcome = "throw"
       THEN /\ resp' = [op |-> "updateCriteria", id |-> id, status |-> status, notes |-> notes,
                        fault |-> TRUE, code |-> 500]
            /\ wcagCriteria' = wcagCriteria
       ELSE /\ wcagCriteria' = { IF row.id = id
                                 THEN [row EXCEPT
                                         !.status = IF status = Undefined THEN row.status ELSE status,
                                         !.notes = IF notes = Undefined THEN row.notes ELSE notes]
                                 ELSE row : row \in wcagCriteria }
            /\ resp' = [op |-> "updateCriteria", id |-> id, status |-> status, notes |-> notes,
                        fault |-> FALSE, code |-> IF id \in CriteriaIds(wcagCriteria) THEN 200 ELSE 404]
    /\ UNCHANGED <<scanResults, task, auditSessions, req, hist, criteriaScreenshots, calc>>

\* PUT /api/audit/criteria/:criteriaId
UpdateCriteria(id, status, notes, outcome) ==
    /\ id \in CriteriaIds(wcagCriteria) => Updates(wcagCriteria) < MaxUpdates
    /\ IF outcome = "throw"
       THEN /\ resp' = [op |-> "updateCriteria", id |-> id, status |-> status, notes |-> notes,
                        fault |-> TRUE, code |-> 500]
            /\ wcagCriteria' = wcagCriteria
       ELSE /\ wcagCriteria' = updateWcagCriteria(wcagCriteria, id, [status |-> status, notes |-> notes])
            /\ resp' = [op |-> "updateCriteria", id |-> id, status |-> status, notes |-> notes,
                        fault |-> FALSE, code |-> IF id \in CriteriaIds(wcagCriteria) THEN 200 ELSE 404]
    /\ UNCHANGED <<scanResults, task, auditSessions, req, hist, criteriaScreenshots, calc>>

\* a handler that also marks the criterion as failed when evidence is attached
CreateScreenshot_MarksFailed(id, filename, outcome) ==
    /\ criteriaScreenshots.serial < MaxScreenshots
    /\ outcome = "ok" /\ id \in CriteriaIds(wcagCriteria)
    /\ criteriaScreenshots' = createScreenshot(criteriaScreenshots,
                                  [criteriaId |-> id, filename |-> filename])
    /\ wcagCriteria' = updateWcagCriteria(wcagCriteria, id, [status |-> "failed", notes |-> Undefined])
    /\ resp' = [op |-> "createScreenshot", id |-> id, fault |-> FALSE, code |-> 200]
    /\ UNCHANGED <<scanResults, task, auditSessions, req, hist, calc>>

\* POST /api/audit/criteria/:criteriaId/screenshot
CreateScreenshot(id, filename, outcome) ==
    /\ criteriaScreenshots.serial < MaxScreenshots
    /\ LET ins == [criteriaId |-> id, filename |-> filename]
       IN  IF outcome = "throw" \/ ~ForeignKeyHolds(wcagCriteria, ins)
           THEN /\ resp' = [op |-> "createScreenshot", id |-> id, fault |-> outcome = "throw",
                            code |-> 500]
                /\ criteriaScreenshots' = criteriaScreenshots
           ELSE /\ criteriaScreenshots' = createScreenshot(criteriaScreenshots, ins)
                /\ resp' = [op |-> "createScreenshot", id |-> id, fault |-> FALSE, code |-> 200]
    /\ UNCHANGED <<scanResults, task, auditSessions, wcagCriteria, req, hist, calc>>

\* DELETE /api/audit/screenshot/:screenshotId
DeleteScreenshot(sid, outcome) ==
    /\ IF outcome = "throw"
       THEN /\ resp' = [op |-> "deleteScreenshot", id |-> sid, code |-> 500]
            /\ criteriaScreenshots' = criteriaScreenshots
       ELSE /\ criteriaScreenshots' = deleteScreenshot(criteriaScreenshots, sid)
            /\ resp' = [op |-> "deleteScreenshot", id |-> sid,
                        code |-> IF \E row \in criteriaScreenshots.rows : row.id = sid
                                 THEN 200 ELSE 404]
    /\ UNCHANGED <<scanResults, task, auditSessions, wcagCriteria, req, hist, calc>>

-----------------------------------------------------------------------------
(* Specifications *)

Init ==
    /\ scanResults = <<>>
    /\ task = <<>>
    /\ auditSessions = <<>>
    /\ wcagCriteria = {}
    /\ req = [r \in Requests |-> IdleRequest]
    /\ hist = [r \in Requests |-> NoHist]
    /\ criteriaScreenshots = NoScreenshots
    /\ resp = NoResp
    /\ calc = NoCalc

\* the steps of the background tasks
TaskNext ==
    \/ \E s \in ScanIds, outcome \in Outcomes : Launch(s, outcome)
    \/ \E s \in ScanIds, outcome \in Outcomes : Navigate(s, outcome)
    \/ \E s \in ScanIds, outcome \in Outcomes, r \in AxeResults : Analyze(s, outcome, r)
    \/ \E s \in ScanIds, outcome \in Outcomes, n \in ElementCounts : Evaluate(s, outcome, n)
    \/ \E s \in ScanIds, outcome \in Outcomes : WriteCompleted(s, outcome)
    \/ \E s \in ScanIds, outcome \in Outcomes : CloseBrowser(s, outcome)
    \/ \E s \in ScanIds, outcome \in Outcomes, html \in Pages : FallbackFetch(s, outcome, html)
    \/ \E s \in ScanIds, outcome \in Outcomes : WriteFallback(s, outcome)
    \/ \E s \in ScanIds, outcome \in Outcomes : WriteFailed(s, outcome)

ScanNext ==
    \/ \E impl \in Impls, urlValid \in BOOLEAN, level \in RequestedLevels,
          outcome \in Outcomes, fetched \in Outcomes, html \in Pages :
          StartScan(impl, urlValid, level, outcome, fetched, html)
    \/ TaskNext
    \/ \E s \in 1..(Len(scanResults) + 1), outcome \in Outcomes : GetScan(s, outcome)

AuditNext ==
    \/ \E r \in Requests, scanId \in 1..(Len(scanResults) + 1), a \in AuditorNames, outcome \in Outcomes :
          AuditStart(r, scanId, a, outcome)
    \/ \E r \in Requests, outcome \in Outcomes : LookupSession(r, outcome)
    \/ \E r \in Requests, outcome \in Outcomes : CreateSession(r, outcome)
    \/ \E r \in Requests, outcome \in Outcomes : InitCriterion(r, outcome)

\* the scan lifecycle alone
SpecScan == Init /\ [][ScanNext]_vars

\* the background task of one scan, from the moment POST /api/scan has answered
InitTask ==
    /\ \E impl \in Impls, l \in LevelSet, fetched \in Outcomes, html \in Pages :
          /\ scanResults = <<NewScan(l)>>
          /\ task = <<StartedTask(impl, l, fetched, html)>>
    /\ auditSessions = <<>>
    /\ wcagCriteria = {}
    /\ req = [r \in Requests |-> IdleRequest]
    /\ hist = [r \in Requests |-> NoHist]
    /\ criteriaScreenshots = NoScreenshots
    /\ resp = NoResp
    /\ calc = NoCalc

SpecTask == InitTask /\ [][TaskNext]_vars

\* the audit overlay over scans already stored: one scan in any of the states
\* the lifecycle leaves a record in, its task over
StoredViolationLists == {<<>>, <<AxeImageAlt>>}
StoredScans ==
    {NewScan(l) : l \in LevelSet}
    \cup {Merge(NewScan(l), [status |-> "failed", errorMessage |-> FailedMessageRoutes]) : l \in LevelSet}
    \cup {Merge(NewScan(l),
                [ status |-> "completed", violations |-> v, passedTests |-> 2,
                  elementsScanned |-> 4, complianceScore |-> scoreGuarded(2, Len(v)) ])
            : l \in LevelSet, v \in StoredViolationLists}

InitAudit ==
    /\ \E rec \in StoredScans :
          /\ scanResults = <<rec>>
          /\ task = <<[NewTask("routes", rec.wcagLevel) EXCEPT
                         !.pc = IF rec.status = "pending" THEN "launch" ELSE "done"]>>
    /\ auditSessions = <<>>
    /\ wcagCriteria = {}
    /\ req = [r \in Requests |-> IdleRequest]
    /\ hist = [r \in Requests |-> NoHist]
    /\ criteriaScreenshots = NoScreenshots
    /\ resp = NoResp
    /\ calc = NoCalc

SpecAudit == InitAudit /\ [][AuditNext]_vars

\* the audit overlay together with readers of the sessions
ReadNext ==
    \E sessionId \in 1..(Len(auditSessions) + 1), outcome \in Outcomes :
        GetSession(sessionId, outcome)
SpecAuditRead == InitAudit /\ [][AuditNext \/ ReadNext]_vars

\* the checklist of a session as initializeWcagCriteria leaves it
RECURSIVE SeedAll(_, _, _)
SeedAll(store, auditSessionId, criteria) ==
    IF criteria = <<>> THEN store
    ELSE SeedAll(createWcagCriteria(store, CriteriaInsert(auditSessionId, Head(criteria))),
                 auditSessionId, Tail(criteria))

\* the audit of one session: a completed level-A scan, its session and its
\* seeded checklist; then updates of criteria and screenshots
InitCriteria ==
    /\ scanResults = << Merge(NewScan("A"),
                              [ status |-> "completed", violations |-> <<AxeImageAlt>>,
                                passedTests |-> 2, elementsScanned |-> 4,
                                complianceScore |-> scoreGuarded(2, 1) ]) >>
    /\ task = <<[NewTask("routes", "A") EXCEPT !.pc = "done"]>>
    /\ auditSessions = createAuditSession(<<>>, 1, "Anna")
    /\ wcagCriteria = SeedAll({}, 1, getWcagCriteriaDefinitions("A"))
    /\ req = [r \in Requests |-> IdleRequest]
    /\ hist = [r \in Requests |-> NoHist]
    /\ criteriaScreenshots = NoScreenshots
    /\ resp = NoResp
    /\ calc = NoCalc

CriteriaNext ==
    \/ \E id \in CriteriaIds(wcagCriteria) \cup {NoSuchId}, status \in StatusInputs,
          notes \in NotesInputs, outcome \in Outcomes :
          UpdateCriteria(id, status, notes, outcome)
    \/ \E id \in CriteriaIds(wcagCriteria) \cup {NoSuchId}, f \in Filenames, outcome \in Outcomes :
          CreateScreenshot(id, f, outcome)
    \/ \E sid \in 1..(criteriaScreenshots.serial + 1), outcome \in Outcomes :
          DeleteScreenshot(sid, outcome)

SpecCriteria == InitCriteria /\ [][CriteriaNext]_vars

-----------------------------------------------------------------------------
(* The pure functions on their own: the criterion mapper of the report and  *)
(* the analyses, each applied once to an input drawn from a bounded set     *)

MaxFindings == 2       \* findings in a list handed to the mapper
MaxHeadings == 4       \* headings in a markup
MaxTokens == 2         \* tags in a markup handed to the analyses

RECURSIVE SeqsUpTo(_, _)
SeqsUpTo(S, n) ==
    IF n = 0 THEN {<<>>}
    ELSE LET shorter == SeqsUpTo(S, n - 1)
         IN  shorter \cup {Append(q, x) : q \in shorter, x \in S}

BestPractice == <<"b", "e", "s", "t">>
MapperFindings ==
    { AxeImageAlt,
      Finding("color-contrast", <<Tag2aa, T143>>),
      Finding("region", <<BestPractice>>),
      Finding("unknown-rule", <<Tag2a, T412>>),
      \* axe's rule for criterion 1.4.12, tagged wcag21aa and wcag1412
      Finding("avoid-inline-spacing", <<W \o <<"2", "1", "a", "a">>, TagOf(<<"1", "4", "1", "2">>)>>) }
MapperLists == SeqsUpTo(MapperFindings, MaxFindings)
CriteriaIdsOfCatalogue == {allCriteria[i].id : i \in 1..Len(allCriteria)}

HeadingLists == SeqsUpTo(1..6, MaxHeadings)
HeadingsMarkup(levels) == [i \in 1..Len(levels) |-> Open(HeadingNames[levels[i]], <<>>)]

MarkupTokens ==
    { Open("img", <<>>), Open("div", <<"style_color_bg">>), Open("h1", <<>>), Open("h3", <<>>),
      Open("input", <<"type_text">>), Open("a", <<>>), Text(":focus"),
      Open("span", <<"aria-foo">>) }
Markups == SeqsUpTo(MarkupTokens, MaxTokens)

RuleIds(findings) == {findings[i].id : i \in 1..Len(findings)}
OfRule(findings, ruleId) == SelectSeq(findings, LAMBDA f : f.id = ruleId)

\* generateWordReport asks the mapper for the status of a criterion
MapCriterion(violations, criteriaId) ==
    /\ calc = NoCalc
    /\ calc' = [ fn |-> "getStatusForCriteria", violations |-> violations,
                 criteriaId |-> criteriaId,
                 out |-> getStatusForCriteria(violations, criteriaId) ]
    /\ UNCHANGED <<scanResults, task, auditSessions, wcagCriteria, req, hist,
                   criteriaScreenshots, resp>>

\* the heading check of both analyses on a markup of headings
CheckHeadings(levels) ==
    /\ calc = NoCalc
    /\ calc' = [ fn |-> "headings", levels |-> levels,
                 basic |-> OfRule(validateSemanticHTML(HeadingsMarkup(levels)), "heading-order"),
                 content |-> OfRule(analyzeHTMLContent(HeadingsMarkup(levels), "A"), "heading-order") ]
    /\ UNCHANGED <<scanResults, task, auditSessions, wcagCriteria, req, hist,
                   criteriaScreenshots, resp>>

\* the analyses of a markup at a level, and the tags axe would be given
AnalyzeMarkup(html, wcagLevel) ==
    /\ calc = NoCalc
    /\ calc' = [ fn |-> "analyze", html |-> html, wcagLevel |-> wcagLevel,
                 basic |-> RuleIds(analyzeHTMLBasic(html, wcagLevel)),
                 content |-> RuleIds(analyzeHTMLContent(html, wcagLevel)),
                 tags |-> axeTags(wcagLevel),
                 violations |-> analyzeHTMLBasic(html, wcagLevel),
                 contentViolations |-> analyzeHTMLContent(html, wcagLevel),
                 elementsScanned |-> countHTMLElements(html) ]
    /\ UNCHANGED <<scanResults, task, auditSessions, wcagCriteria, req, hist,
                   criteriaScreenshots, resp>>

\* The text a finding shows for the markup its rule matched, as the number of
\* characters taken from the match and whether "..." is appended.
SnippetLimit == 100
MatchedLengths == {7, SnippetLimit, SnippetLimit + 1, SnippetLimit + 50}
\* m.substring(0, 100) + (m.length > 100 ? '...' : '')
Truncated(length) ==
    [ chars |-> IF length > SnippetLimit THEN SnippetLimit ELSE length,
      ellipsis |-> length > SnippetLimit ]
\* the match itself
Whole(length) == [chars |-> length, ellipsis |-> FALSE]
\* match[0] + '...'
WholeWithEllipsis(length) == [chars |-> length, ellipsis |-> TRUE]

Evaluators == {"analyzeHTMLBasic", "analyzeHTMLContent"}
\* the rules of each evaluator that show matched markup (the others show a
\* fixed text)
MatchingRules(evaluator) ==
    IF evaluator = "analyzeHTMLBasic"
    THEN { "image-alt", "label", "html-has-lang", "document-title", "heading-order",
           "page-has-heading-one", "aria-valid-attr", "color-contrast", "link-name",
           "focusable-element" }
    ELSE { "image-alt", "label", "heading-order" }

\* nodes[0].html of the finding of a rule whose match has the given length
nodeHtml(evaluator, ruleId, length) ==
    IF evaluator = "analyzeHTMLBasic"
    THEN IF ruleId \in {"image-alt", "label", "color-contrast", "link-name", "focusable-element"}
         THEN Truncated(length)
         ELSE Whole(length)
    ELSE IF ruleId = "heading-order" THEN WholeWithEllipsis(length) ELSE Truncated(length)

\* a rule of an evaluator builds the node of a finding from its match
Excerpt(evaluator, ruleId, length) ==
    /\ calc = NoCalc
    /\ calc' = [ fn |-> "nodeHtml", evaluator |-> evaluator, ruleId |-> ruleId,
                 length |-> length, html |-> nodeHtml(evaluator, ruleId, length) ]
    /\ UNCHANGED <<scanResults, task, auditSessions, wcagCriteria, req, hist,
                   criteriaScreenshots, resp>>

RulesNext ==
    \/ \E v \in MapperLists, c \in CriteriaIdsOfCatalogue : MapCriterion(v, c)
    \/ \E levels \in HeadingLists : CheckHeadings(levels)
    \/ \E html \in Markups \cup Pages, l \in LevelSet : AnalyzeMarkup(html, l)
    \/ \E e \in Evaluators : \E ruleId \in MatchingRules(e), n \in MatchedLengths :
          Excerpt(e, ruleId, n)

SpecRules == Init /\ [][RulesNext]_vars

Next == ScanNext \/ AuditNext \/ CriteriaNext \/ RulesNext \/ ReadNext

Spec == Init /\ [][Next]_vars

-----------------------------------------------------------------------------
(* Properties of the scan lifecycle *)

Terminal(rec) == rec.status \in {"completed", "failed"}
Results(rec) ==
    <<rec.status, rec.violations, rec.passedTests, rec.elementsScanned, rec.complianceScore>>
TaskOver(t) == t.pc \in {"done", "rejected"}

\* C1: lifecycle terminality.  Once a scan record is 'completed' or 'failed',
\* no step changes its status, violations, passedTests, elementsScanned or
\* complianceScore, and its status is written only once after creation.
C1_TerminalNeverChanges ==
    [][\A s \in ScanIds :
          Terminal(scanResults[s]) =>
              /\ Results(scanResults'[s]) = Results(scanResults[s])
              /\ task'[s].writes = task[s].writes]_vars

\* C2: every scan leaves 'pending'.  In the form a finite run decides: when the
\* background task of a scan is over (returned, or its promise rejected), the
\* record is 'completed' or 'failed'.
C2_TaskOverLeavesPending ==
    \A s \in ScanIds : TaskOver(task[s]) => Terminal(scanResults[s])

\* C9: score bounds.  The stored complianceScore of a completed scan is an
\* integer in 0..100; it is 100 when there are no findings and passedTests > 0,
\* and 0 when passedTests and the findings are both zero.
C9_ScoreBounds ==
    \A s \in ScanIds :
        scanResults[s].status = "completed" =>
            LET rec == scanResults[s]
                p == rec.passedTests
                f == Len(rec.violations)
            IN  /\ rec.complianceScore.kind = "int"
                /\ rec.complianceScore.val \in 0..100
                /\ (f = 0 /\ p > 0) => rec.complianceScore = Num(100)
                /\ (f = 0 /\ p = 0) => rec.complianceScore = Num(0)

ZeroMetrics(rec) ==
    /\ rec.violations = <<>>
    /\ rec.passedTests = 0
    /\ rec.elementsScanned = 0
    /\ rec.complianceScore = Num(0)

\* C10: shape of a scan record.  While 'pending' it has no violations and zero
\* metrics; errorMessage is set only if the status is 'failed'; a 'failed'
\* record carries no findings or metrics of a completed evaluation.
C10_RecordShape ==
    \A s \in ScanIds :
        LET rec == scanResults[s]
        IN  /\ rec.status = "pending" => ZeroMetrics(rec)
            /\ rec.errorMessage # NoMessage => rec.status = "failed"
            /\ rec.status = "failed" => ZeroMetrics(rec)

\* the step is the scan's POST /api/scan being answered
StartsScan(s) == s = Len(scanResults') /\ Len(scanResults') > Len(scanResults)
\* the first awaited step of the task, where a start that does not wait leaves it
FirstStep(impl) == IF impl = "serverCurl" THEN "fetch" ELSE "launch"

\* C11: startScan never waits for the scan's work.  When the response with the
\* scan id and 'pending' is produced, the scan's task has not gone past its
\* first step (no markup acquired, nothing evaluated), and a failing
\* acquisition does not turn the response into an error: a request that passes
\* validation and whose record is created is answered 200 'pending'.
C11_StartDoesNotWait ==
    [][\A s \in 1..Len(scanResults') :
          StartsScan(s) =>
              /\ resp'.op = "startScan" /\ resp'.code = 200 /\ resp'.status = "pending"
              /\ resp'.scanId = s
              /\ task'[s].pc = FirstStep(task'[s].impl)
              /\ task'[s].out = NoOut]_vars

\* C13: a startScan request with an invalid URL or a level outside A, AA, AAA
\* is rejected (400), creates no scan record and starts no background scan.
C13_InvalidScanRequestRejected ==
    [][(resp'.op = "startScan" /\ ~ValidScanRequest(resp'.urlValid, resp'.wcagLevel))
          => (resp'.code = 400 /\ Len(scanResults') = Len(scanResults)
              /\ Len(task') = Len(task))]_vars

CompletedResults(u) ==
    <<u.status, u.violations, u.passedTests, u.elementsScanned, u.complianceScore>>

\* C20: atomic completion.  A getScan that observes 'completed' observes the
\* findings and metrics of one completed update, whole; and a getScan issued
\* after the transition to 'completed' observes 'completed'.
C20_AtomicCompletion ==
    (resp.op = "getScan" /\ resp.code = 200) =>
        /\ resp.body.status = "completed" =>
               \E i \in 1..Len(resp.after) :
                   Results(resp.body) = CompletedResults(Stored(task[resp.scanId].impl, resp.after[i]))
        /\ resp.after # <<>> => resp.body.status = "completed"

-----------------------------------------------------------------------------
(* Properties of POST /api/audit/start *)

NewSessions == {i \in 1..Len(auditSessions') : i > Len(auditSessions)}
NewRows == wcagCriteria' \ wcagCriteria
ScanOfSession(sessions, id) == sessions[id].scanId

\* C3: a session is created only for a scan whose status is 'completed'; for a
\* 'pending' or 'failed' scan the start is rejected and creates nothing.
C3_SessionOnlyForCompleted ==
    [][\A i \in NewSessions :
          scanResults[auditSessions'[i].scanId].status = "completed"]_vars

\* all the starts for the scan so far ran one after the other
Sequential(scanId) ==
    \A q \in Requests :
        (req[q].pc # "idle" /\ req[q].scanId = scanId) => ~hist[q].overlapped

\* C4: idempotent start, sequential.  A start that arrives after an earlier
\* start for the same scan has returned a session answers with the same session
\* id, and adds no audit session and no criterion evaluation.
C4_SequentialStartIdempotent ==
    \A r1 \in Requests, r2 \in Requests :
        ( /\ r1 \in hist[r2].returned
          /\ req[r1].response.code = 200
          /\ req[r2].pc # "idle"
          /\ Sequential(req[r2].scanId) )
        => /\ Cardinality(SessionsOf(auditSessions, req[r2].scanId)) = hist[r2].sessions
           /\ Cardinality(CriteriaOfScan(auditSessions, wcagCriteria, req[r2].scanId))
                 = hist[r2].criteria
           /\ req[r2].pc = "done" /\ req[r2].response.code = 200
                 => req[r2].response.session = req[r1].response.session

C4_Witness ==
    \E r1 \in Requests, r2 \in Requests :
        /\ r1 \in hist[r2].returned
        /\ req[r1].response.code = 200 /\ req[r1].sessionId # 0
        /\ Sequential(req[r2].scanId)
        /\ req[r2].pc = "done" /\ req[r2].response.code = 200
        /\ req[r2].response.session = req[r1].sessionId
        /\ hist[r2].criteria > 0

\* C5: at most one audit session per scan, in every reachable state.
C5_AtMostOneSessionPerScan ==
    \A scanId \in ScanIds : Cardinality(SessionsOf(auditSessions, scanId)) <= 1

MapperMatch(row) ==
    getStatusForCriteria(
        scanResults[ScanOfSession(auditSessions', row.auditSessionId)].violations,
        row.criteriaId) = "Niespelnione"

\* C6 as stated: a freshly seeded evaluation is 'failed' if and only if the
\* criterion mapper reports a match against the findings of the scan.
C6_SeedMatchesMapper ==
    [][\A row \in NewRows : (row.status = "failed") <=> MapperMatch(row)]_vars

\* C6 as amended: no freshly seeded evaluation is 'failed', whether or not the
\* criterion mapper reports a match for its criterion.
C6_SeedNeverFailed ==
    [][\A row \in NewRows : row.status # "failed"]_vars

C6_Witness ==
    \E row \in wcagCriteria :
        /\ getStatusForCriteria(
               scanResults[ScanOfSession(auditSessions, row.auditSessionId)].violations,
               row.criteriaId) = "Niespelnione"
        /\ scanResults[ScanOfSession(auditSessions, row.auditSessionId)].status = "completed"
        /\ row.status # "failed"

\* C7 as stated: every freshly seeded evaluation is 'passed' or 'failed'.
C7_SeedPassedOrFailed ==
    [][\A row \in NewRows : row.status \in {"passed", "failed"}]_vars

\* C7 as amended: every freshly seeded evaluation is 'not_evaluated'.
C7_SeedNotEvaluated ==
    [][\A row \in NewRows : row.status = "not_evaluated"]_vars

CreatedBy(r) == req[r].pc = "done" /\ req[r].response.code = 200 /\ req[r].sessionId # 0

C7_Witness ==
    \E r \in Requests :
        /\ CreatedBy(r)
        /\ getWcagCriteriaBySession(wcagCriteria, req[r].sessionId) # {}
        /\ \A row \in getWcagCriteriaBySession(wcagCriteria, req[r].sessionId) :
              row.status = "not_evaluated"

LevelRank(l) == CASE l = "A" -> 1 [] l = "AA" -> 2 [] l = "AAA" -> 3
WithinLevel(cat, wcagLevel) == {c \in Range(cat) : LevelRank(c.level) <= LevelRank(wcagLevel)}

\* C8: after a start has returned a newly created session for a scan of level
\* L, the session owns exactly one evaluation for each catalogue criterion whose
\* level is within L and none for any other; the checklist for A is within
\* that for AA, which is within that for AAA (also over the whole catalogue).
C8_ChecklistMatchesLevel ==
    /\ \A r \in Requests :
          CreatedBy(r) =>
              LET rows == getWcagCriteriaBySession(wcagCriteria, req[r].sessionId)
                  wanted == WithinLevel(Catalogue, scanResults[req[r].scanId].wcagLevel)
              IN  /\ \A c \in wanted :
                        Cardinality({row \in rows : row.criteriaId = c.id /\ row.level = c.level}) = 1
                  /\ \A row \in rows : \E c \in wanted : row.criteriaId = c.id
                  /\ Cardinality(rows) = Cardinality(wanted)
    /\ \A l \in LevelSet :
          /\ Range(getWcagCriteriaDefinitions(l)) = WithinLevel(Catalogue, l)
          /\ Range(LevelFilter(allCriteria, l)) = WithinLevel(allCriteria, l)
    /\ Range(LevelFilter(allCriteria, "A")) \subseteq Range(LevelFilter(allCriteria, "AA"))
    /\ Range(LevelFilter(allCriteria, "AA")) \subseteq Range(LevelFilter(allCriteria, "AAA"))

C8_Witness ==
    \E r \in Requests :
        /\ CreatedBy(r)
        /\ scanResults[req[r].scanId].wcagLevel = "AA"
        /\ Cardinality(getWcagCriteriaBySession(wcagCriteria, req[r].sessionId)) = 2 * MaxPerLevel

-----------------------------------------------------------------------------
(* Properties of the criterion updates and of the screenshots *)

ValidStatuses == {"not_evaluated", "passed", "failed", "not_applicable"}

\* C12: every criterion evaluation's status is one of 'not_evaluated',
\* 'passed', 'failed', 'not_applicable'; an update whose status is missing or
\* any other value is rejected.
C12_StatusAlwaysValid ==
    /\ \A row \in wcagCriteria : row.status \in ValidStatuses
    /\ (resp.op = "updateCriteria" /\ resp.status \notin ValidStatuses) => resp.code # 200

\* C14: an update addressed to an id for which no evaluation exists is answered
\* with not-found (404) and leaves every stored evaluation unchanged.
C14_UpdateOfAbsentIsNotFound ==
    [][(resp'.op = "updateCriteria" /\ resp'.id \notin CriteriaIds(wcagCriteria))
          => /\ wcagCriteria' = wcagCriteria
             /\ ~resp'.fault => resp'.code = 404]_vars

C14_Witness ==
    /\ resp.op = "updateCriteria" /\ resp.id = NoSuchId /\ resp.code = 404
    /\ resp.status = "passed"
    /\ \E row \in wcagCriteria : row.status = "not_applicable" /\ row.notes = "note"

\* C15: attaching and removing screenshots never changes the status or the
\* notes of any criterion evaluation.
C15_EvidenceLeavesEvaluations ==
    [][resp'.op \in {"createScreenshot", "deleteScreenshot"} => wcagCriteria' = wcagCriteria]_vars

C15_Witness ==
    /\ resp.op = "deleteScreenshot" /\ resp.code = 200
    /\ criteriaScreenshots.serial > 0 /\ criteriaScreenshots.rows = {}
    /\ \E row \in wcagCriteria : row.status = "passed" /\ row.notes = "note"

\* C16: a screenshot posted for an id for which no evaluation exists is
\* answered with not-found (404) and nothing is stored; every stored
\* screenshot references an existing evaluation.
C16_ScreenshotOfAbsentIsNotFound ==
    /\ (resp.op = "createScreenshot" /\ resp.id \notin CriteriaIds(wcagCriteria) /\ ~resp.fault)
          => resp.code = 404
    /\ \A shot \in criteriaScreenshots.rows : shot.criteriaId \in CriteriaIds(wcagCriteria)

-----------------------------------------------------------------------------
(* Properties of the mapper and of the analyses *)

\* C17: the criterion mapper answers 'violated' exactly when the rule-id table
\* or the tag path matches, 'passed' otherwise (so for an empty finding list),
\* and never anything else.
C17_MapperIsOrOfPaths ==
    calc.fn = "getStatusForCriteria" =>
        /\ calc.out \in {"Niespelnione", "Spelnione"}
        /\ calc.out = "Niespelnione" <=>
               \/ \E i \in 1..Len(calc.violations) :
                     calc.violations[i].id \in criteriaMap(calc.criteriaId)
               \/ \E i \in 1..Len(calc.violations) :
                     \E k \in 1..Len(calc.violations[i].tags) :
                        tagMatches(calc.violations[i].tags[k], calc.criteriaId)
        /\ calc.violations = <<>> => calc.out = "Spelnione"

\* the tag path alone: a rule id the table does not know, tagged wcag412
C17_Witness ==
    /\ calc.fn = "getStatusForCriteria"
    /\ calc.violations = <<Finding("unknown-rule", <<Tag2a, T412>>)>>
    /\ calc.criteriaId = Cid("4", "1", <<"2">>)
    /\ calc.out = "Niespelnione"

\* positions of the headings deeper by more than one than the heading before
Skips(levels) == {i \in 2..Len(levels) : levels[i] > levels[i - 1] + 1}
AnchoredAtSkips(found, levels) ==
    /\ Len(found) = Cardinality(Skips(levels))
    /\ {found[k].node.target[2] : k \in 1..Len(found)} = Skips(levels)
    /\ \A k \in 1..Len(found) :
          /\ found[k].id = "heading-order"
          /\ found[k].node.html = HeadingsMarkup(levels)[found[k].node.target[2]]
    /\ \A k \in 1..(Len(found) - 1) : found[k].node.target[2] < found[k + 1].node.target[2]

\* C18: heading order.  For a sequence of heading levels, exactly one
\* 'heading-order' finding for each heading whose level exceeds that of the
\* heading before it by more than one, anchored at that heading, none for the
\* first; [1,2,4] gives one at the level-4 heading, [1,2,3] and [1,2,3,4]
\* none, [1,3] one.
C18_HeadingOrder ==
    calc.fn = "headings" =>
        /\ AnchoredAtSkips(calc.basic, calc.levels)
        /\ AnchoredAtSkips(calc.content, calc.levels)
        /\ calc.levels = <<1, 2, 4>> =>
               Len(calc.basic) = 1 /\ calc.basic[1].node.target = <<"h4", 3>>
        /\ calc.levels \in {<<1, 2, 3>>, <<1, 2, 3, 4>>} => calc.basic = <<>>
        /\ calc.levels = <<1, 3>> => Len(calc.basic) = 1

C18_Witness ==
    /\ calc.fn = "headings" /\ calc.levels = <<1, 2, 4>>
    /\ Len(calc.basic) = 1 /\ calc.basic[1].node.target = <<"h4", 3>>
    /\ Len(calc.content) = 1

\* C19: monotonic rule activation.  For the same markup the rule ids found at
\* A are among those found at AA, which are among those found at AAA, and so
\* are the tags given to axe.
C19_MonotonicActivation ==
    calc.fn = "analyze" =>
        \A lower \in LevelSet :
            LevelRank(lower) <= LevelRank(calc.wcagLevel) =>
                /\ RuleIds(analyzeHTMLBasic(calc.html, lower)) \subseteq calc.basic
                /\ RuleIds(analyzeHTMLContent(calc.html, lower)) \subseteq calc.content
                /\ axeTags(lower) \subseteq calc.tags

\* a markup whose contrast rule runs at AA and AAA and not at A
C19_Witness ==
    /\ calc.fn = "analyze" /\ calc.wcagLevel = "AAA"
    /\ "color-contrast" \in calc.basic
    /\ "color-contrast" \notin RuleIds(analyzeHTMLBasic(calc.html, "A"))
    /\ "color-contrast" \in RuleIds(analyzeHTMLBasic(calc.html, "AA"))
    /\ "focus-visible" \in calc.content


\* C22: the page <html><body><img src></body></html> analysed at level A
\* yields exactly one finding, the image rule's, and three scanned elements.
RuleSeq(findings) == [i \in 1..Len(findings) |-> findings[i].id]
AnalysedPageImgAtA ==
    calc.fn = "analyze" /\ calc.html = PageImg /\ calc.wcagLevel = "A"
C22_PageImgOneFinding ==
    AnalysedPageImgAtA =>
        /\ Len(calc.violations) = 1
        /\ calc.elementsScanned = 3

\* C22 (as the code behaves): analyzeHTMLBasic returns five findings on that
\* page, the image rule's followed by the structure and landmark rules',
\* analyzeHTMLContent returns the image rule's alone, and three elements are
\* counted.
C22_PageImgFiveFindings ==
    AnalysedPageImgAtA =>
        /\ RuleSeq(calc.violations) =
               << "image-alt", "html-has-doctype", "html-has-lang",
                  "document-title", "landmark-one-main" >>
        /\ RuleSeq(calc.contentViolations) = <<"image-alt">>
        /\ calc.elementsScanned = 3
C22_Witness == AnalysedPageImgAtA /\ Len(calc.violations) = 5

\* C23: an update that carries only a status leaves the notes as they were,
\* one that carries only notes leaves the status as it was, and one that
\* carries both sets both; nothing else of the evaluation changes.
Kept(old, given) == IF given = Undefined THEN old ELSE given
C23_UpdateFrame ==
    [][(resp'.op = "updateCriteria" /\ resp'.code = 200)
          => \A row \in wcagCriteria :
                IF row.id = resp'.id
                THEN \E new \in wcagCriteria' :
                        /\ new.id = row.id
                        /\ new.status = Kept(row.status, resp'.status)
                        /\ new.notes = Kept(row.notes, resp'.notes)
                        /\ new.criteriaId = row.criteriaId
                        /\ new.level = row.level
                        /\ new.auditSessionId = row.auditSessionId
                ELSE row \in wcagCriteria']_vars

\* a status-only update has gone through on a row whose notes were set before
C23_Witness ==
    /\ resp.op = "updateCriteria" /\ resp.code = 200
    /\ resp.status = "not_applicable" /\ resp.notes = Undefined
    /\ \E row \in wcagCriteria :
          row.id = resp.id /\ row.status = "not_applicable" /\ row.notes = "note"

HasInteractive(html) == AnyTok(html, LAMBDA t : t.kind = "open" /\ t.name \in NativelyFocusable)
FocusFindingDue(html, wcagLevel) ==
    wcagLevel = "AAA" /\ HasInteractive(html)
    /\ ~IncludesFocusPseudo(html) /\ ~IncludesOutline(html)
C25_FocusRuleExactly ==
    calc.fn = "analyze" =>
        \A findings \in {calc.violations, calc.contentViolations} :
            Len(OfRule(findings, "focus-visible")) =
                IF FocusFindingDue(calc.html, calc.wcagLevel) THEN 1 ELSE 0

\* C26: the snippet of every finding is at most 100 characters of the
\* matched markup, followed by an ellipsis only when the match was longer
\* than 100 characters, for every rule and every length of the match.
C26_SnippetTruncated ==
    calc.fn = "nodeHtml" =>
        /\ calc.html.chars <= SnippetLimit
        /\ calc.html.ellipsis <=> calc.length > SnippetLimit

\* C27: a session that is returned, by a read of the session or by a start
\* that found it already stored, owns an evaluation for every criterion of
\* its scan's level, whatever the first start's loop is doing or has done.
ApplicableCriteria(sessionId) ==
    Len(getWcagCriteriaDefinitions(scanResults[ScanOfSession(auditSessions, sessionId)].wcagLevel))
C27_ReturnedSessionIsComplete ==
    [][ /\ \A r \in Requests :
              (req[r].pc = "lookup" /\ req'[r].pc = "done" /\ req'[r].response.code = 200)
                 => Cardinality(getWcagCriteriaBySession(wcagCriteria, req'[r].response.session))
                       = ApplicableCriteria(req'[r].response.session)
        /\ (resp'.op = "getSession" /\ resp'.code = 200)
              => Cardinality(resp'.criteria) = ApplicableCriteria(resp'.sessionId) ]_vars

\* C28: the mapper reports a criterion as not met only if a finding's rule
\* id is listed for the criterion or a finding carries the tag that encodes
\* exactly that criterion; a tag of another criterion never does it.
EncodesExactly(tag, criteriaId) == tag = W \o RemoveDots(criteriaId)
C28_MapperPrecision ==
    (calc.fn = "getStatusForCriteria" /\ calc.out = "Niespelnione") =>
        \/ \E i \in 1..Len(calc.violations) :
              calc.violations[i].id \in criteriaMap(calc.criteriaId)
        \/ \E i \in 1..Len(calc.violations) :
              \E k \in 1..Len(calc.violations[i].tags) :
                 EncodesExactly(calc.violations[i].tags[k], calc.criteriaId)

\* C29: in the task of routes.ts the fallback starts only after the browser
\* path has thrown; 'failed' is written only after the browser path and the
\* fallback have both failed; and when the browser path failed and the
\* fallback did not, the task ends with the record 'completed', holding the
\* fallback's findings and metrics and no errorMessage.
InFallback(t) == t.pc \in {"fetch", "writeFallback"}
FallbackResults(rec) ==
    { <<"completed", m.violations, m.passedTests, m.elementsScanned, m.complianceScore>> :
         m \in {FallbackMetrics(html, rec.wcagLevel) : html \in Pages} }
C29_FallbackOrdering ==
    \A s \in ScanIds :
        task[s].impl = "routes" =>
            /\ InFallback(task[s]) => "browser" \in task[s].failures
            /\ scanResults[s].status = "failed" => task[s].failures = {"browser", "fallback"}
            /\ (TaskOver(task[s]) /\ task[s].failures = {"browser"})
                  => /\ Results(scanResults[s]) \in FallbackResults(scanResults[s])
                     /\ scanResults[s].errorMessage = NoMessage

\* the browser path threw, the fallback went through, the task is over
C29_Witness ==
    \E s \in ScanIds :
        /\ task[s].impl = "routes" /\ task[s].pc = "done"
        /\ task[s].failures = {"browser"}
        /\ scanResults[s].status = "completed"
        /\ scanResults[s].elementsScanned = 3

\* C30: every browser a background task launched is closed when the task is
\* over, on the success path and on every failure path.
C30_BrowserClosedWhenTaskOver ==
    \A s \in ScanIds : TaskOver(task[s]) => task[s].browser # "open"

====
